---- MODULE Spec2Model ----
(***************************************************************************)
(* Model of proxy.py: the process-wide registry real_objects guarded by    *)
(* proxy_lock (register_module / unregister_module run inside the          *)
(* synchronized wrapper) and ProxyObject, whose __getattr__ and _call_sync *)
(* read the registry.  Threads interleave at the granularity at which the  *)
(* interpreter can switch between them: one dictionary operation, one lock *)
(* operation, or one call of a target method.                              *)
(***************************************************************************)
EXTENDS Integers, Sequences, FiniteSets, TLC

(* ---------------------------- bounds ----------------------------------- *)
NumThreads == 2
NumNames == 2
NumProxies == 1

Threads == 1..NumThreads
Names == 1..NumNames
Proxies == 1..NumProxies

(* ------------------------ the objects registered ----------------------- *)
(* Four module objects.  "A" and "C" are two distinct objects of a class   *)
(* whose __eq__ compares a value they share; "B" keeps the default         *)
(* (identity) comparison; comparing "D" raises (as the truth value of an   *)
(* element-wise comparison does).                                          *)
Instances == {"A", "B", "C", "D"}
ValueEq == {"A", "C"}
RaisingEq == {"D"}

(* Python's None, the marker for a key the dictionary does not hold, a     *)
(* free lock and a proxy object not yet constructed.                       *)
PyNone == "None"
NoEntry == "NoEntry"
NoThread == 0
NoName == 0

(* Members the registered objects expose: every object has add(x, y),     *)
(* which returns x + y, and boom(), which raises; none has foo.            *)
Members(obj) == IF obj \in Instances THEN {"add", "boom"} ELSE {}

(* Classes decorated with provide_proxy.  "A" and "C" are instances of one *)
(* decorated class, "B" of a decorated class whose base class is decorated *)
(* too, so constructing "B" runs two of the decorator's __init__ wrappers; *)
(* the class of "D" is not decorated.                                      *)
Decorated == {"A", "B", "C"}
Wrappers(m) == IF m = "B" THEN 2 ELSE 1

\* '.'.join([self.__module__, self.__class__.__name__])
ClassName(m) == IF m = "B" THEN 2 ELSE 1

ArgTuples == {<<2, 3>>, <<0, 1>>}
Keywords == {"callback_success", "callback_failure"}
KwargSets == SUBSET Keywords

(* A finished operation's result: returned value (<<>> is None) or the     *)
(* exception that reached the caller.                                      *)
NoOutcome == [kind |-> "none", val |-> <<>>, exc |-> "", svc |-> NoName, meth |-> ""]
Returned(v) == [kind |-> "return", val |-> v, exc |-> "", svc |-> NoName, meth |-> ""]
Raised(e, s, m) == [kind |-> "raise", val |-> <<>>, exc |-> e, svc |-> s, meth |-> m]

VARIABLES
    real_objects,   \* the dictionary: Names -> Instances or NoEntry
    proxy_lock,     \* the thread holding proxy_lock, or NoThread
    service_name,   \* ProxyObject._service_name of each proxy object
    pc,             \* where each thread is
    frame,          \* the arguments and locals of the thread's current call
    outcome,        \* what the thread's current call returned or raised
    invoked         \* target methods the thread's current call has invoked

vars == <<real_objects, proxy_lock, service_name, pc, frame, outcome, invoked>>

\* replacing: the register in progress found (and deleted) an entry for its
\* name; pending: the exception the wrapped body raised, re-raised after the
\* lock is released; inits: the decorator's __init__ wrappers a construction
\* has still to enter; regs: the register_module calls it has made
IdleFrame ==
    [op |-> "none", name |-> NoName, module |-> PyNone, proxy |-> 0,
     method |-> "", args |-> <<>>, kwargs |-> {},
     replacing |-> FALSE, pending |-> "", inits |-> 0, regs |-> 0]

Init ==
    /\ real_objects = [n \in Names |-> NoEntry]
    /\ proxy_lock = NoThread
    /\ service_name = [p \in Proxies |-> NoName]
    /\ pc = [t \in Threads |-> "idle"]
    /\ frame = [t \in Threads |-> IdleFrame]
    /\ outcome = [t \in Threads |-> NoOutcome]
    /\ invoked = [t \in Threads |-> <<>>]

(* ------------------------- synchronized(lock) -------------------------- *)
BodyOf(op) == IF op = "unregister" THEN "unreg_check" ELSE "reg_del"

\* where the wrapped function returns to: its caller, or (register_module
\* called by the decorator's __init__) the rest of that __init__
AfterBody(op) == IF op = "construct" THEN "orig_init" ELSE "done"

\* lock.acquire(): blocks until the lock is free
Acquire(t) ==
    /\ pc[t] = "acquire"
    /\ proxy_lock = NoThread
    /\ proxy_lock' = t
    /\ pc' = [pc EXCEPT ![t] = BodyOf(frame[t].op)]
    /\ UNCHANGED <<real_objects, service_name, frame, outcome, invoked>>

Release_nofinally(t) ==
    /\ pc[t] = "release"
    /\ proxy_lock' = IF frame[t].pending = "" THEN NoThread ELSE proxy_lock
    /\ outcome' = [outcome EXCEPT ![t] =
                      IF frame[t].op = "construct" THEN NoOutcome
                      ELSE IF frame[t].pending = "" THEN Returned(<<>>)
                      ELSE Raised(frame[t].pending, NoName, "")]
    /\ pc' = [pc EXCEPT ![t] = AfterBody(frame[t].op)]
    /\ UNCHANGED <<real_objects, service_name, frame, invoked>>

\* finally: lock.release(); the body's return value or exception goes on
Release(t) ==
    /\ pc[t] = "release"
    /\ proxy_lock' = NoThread
    /\ outcome' = [outcome EXCEPT ![t] =
                      IF frame[t].op = "construct" THEN NoOutcome
                      ELSE IF frame[t].pending = "" THEN Returned(<<>>)
                      ELSE Raised(frame[t].pending, NoName, "")]
    /\ pc' = [pc EXCEPT ![t] = AfterBody(frame[t].op)]
    /\ UNCHANGED <<real_objects, service_name, frame, invoked>>

\* the caller goes on after the call (its result is dropped)
Return(t) ==
    /\ pc[t] = "done"
    /\ pc' = [pc EXCEPT ![t] = "idle"]
    /\ frame' = [frame EXCEPT ![t] = IdleFrame]
    /\ outcome' = [outcome EXCEPT ![t] = NoOutcome]
    /\ invoked' = [invoked EXCEPT ![t] = <<>>]
    /\ UNCHANGED <<real_objects, proxy_lock, service_name>>

(* --------------------------- register_module --------------------------- *)
CallRegister(t, n, m) ==
    /\ pc[t] = "idle"
    /\ frame' = [frame EXCEPT ![t] = [IdleFrame EXCEPT !.op = "register", !.name = n, !.module = m]]
    /\ pc' = [pc EXCEPT ![t] = "acquire"]
    /\ UNCHANGED <<real_objects, proxy_lock, service_name, outcome, invoked>>

DelIfPresent_clear(ro, n) == [k \in DOMAIN ro |-> NoEntry]

\* if module_service_name in real_objects: del real_objects[module_service_name]
DelIfPresent(ro, n) == [ro EXCEPT ![n] = NoEntry]

RegDel(t) ==
    /\ pc[t] = "reg_del"
    /\ real_objects' = DelIfPresent(real_objects, frame[t].name)
    /\ frame' = [frame EXCEPT ![t].replacing = (real_objects[frame[t].name] # NoEntry)]
    /\ pc' = [pc EXCEPT ![t] = "reg_store"]
    /\ UNCHANGED <<proxy_lock, service_name, outcome, invoked>>

StoreModule_lost(ro, n, m) == ro

\* real_objects[module_service_name] = module
StoreModule(ro, n, m) == [ro EXCEPT ![n] = m]

RegStore(t) ==
    /\ pc[t] = "reg_store"
    /\ real_objects' = StoreModule(real_objects, frame[t].name, frame[t].module)
    /\ pc' = [pc EXCEPT ![t] = "release"]
    /\ UNCHANGED <<proxy_lock, service_name, frame, outcome, invoked>>

(* -------------------------- unregister_module -------------------------- *)
CallUnregister(t, n, m) ==
    /\ pc[t] = "idle"
    /\ frame' = [frame EXCEPT ![t] = [IdleFrame EXCEPT !.op = "unregister", !.name = n, !.module = m]]
    /\ pc' = [pc EXCEPT ![t] = "acquire"]
    /\ UNCHANGED <<real_objects, proxy_lock, service_name, outcome, invoked>>

\* x == y for two registered objects: "True", "False", or "raise".  x.__eq__
\* is asked first; the default __eq__ answers only for the same object and
\* otherwise hands the question to y.__eq__.
PyEq(x, y) ==
    IF x \in RaisingEq THEN "raise"
    ELSE IF x \in ValueEq THEN (IF y \in ValueEq THEN "True" ELSE "False")
    ELSE IF x = y THEN "True"
    ELSE IF y \in RaisingEq THEN "raise"
    ELSE "False"

\* module_service_name in real_objects and real_objects[module_service_name] == module
UnregisterTest(ro, n, m) ==
    IF ro[n] = NoEntry THEN "False" ELSE PyEq(ro[n], m)

UnregCheck(t) ==
    LET n == frame[t].name
        r == UnregisterTest(real_objects, n, frame[t].module)
    IN  /\ pc[t] = "unreg_check"
        /\ real_objects' = IF r = "True" THEN [real_objects EXCEPT ![n] = NoEntry]
                           ELSE real_objects
        /\ frame' = [frame EXCEPT ![t].pending = IF r = "raise" THEN "ValueError" ELSE ""]
        /\ pc' = [pc EXCEPT ![t] = "release"]
        /\ UNCHANGED <<proxy_lock, service_name, outcome, invoked>>

(* ---------------------------- provide_proxy ---------------------------- *)
\* an instance of a decorated class is constructed: the outermost __init__
\* wrapper starts with register_module(<module>.<class>, self)
CallConstruct(t, m) ==
    /\ pc[t] = "idle"
    /\ frame' = [frame EXCEPT ![t] = [IdleFrame EXCEPT !.op = "construct",
                     !.name = ClassName(m), !.module = m,
                     !.inits = Wrappers(m) - 1, !.regs = 1]]
    /\ pc' = [pc EXCEPT ![t] = "acquire"]
    /\ UNCHANGED <<real_objects, proxy_lock, service_name, outcome, invoked>>

OrigInit_rollback(t, raises) ==
    /\ pc[t] = "orig_init"
    /\ IF frame[t].inits > 0
       THEN /\ frame' = [frame EXCEPT ![t].inits = @ - 1, ![t].regs = @ + 1,
                                      ![t].replacing = FALSE]
            /\ pc' = [pc EXCEPT ![t] = "acquire"]
            /\ UNCHANGED <<outcome, real_objects>>
       ELSE /\ outcome' = [outcome EXCEPT ![t] =
                              IF raises THEN Raised("InitError", NoName, "__init__")
                              ELSE Returned(<<>>)]
            /\ real_objects' = IF raises THEN [real_objects EXCEPT ![frame[t].name] = NoEntry]
                               ELSE real_objects
            /\ pc' = [pc EXCEPT ![t] = "done"]
            /\ UNCHANGED frame
    /\ UNCHANGED <<proxy_lock, service_name, invoked>>

\* orig_init(self, *args, **kwargs): the __init__ the class had when it was
\* decorated.  For a decorated subclass of a decorated class that is the
\* base class's wrapper, which registers again; otherwise it is the
\* class's own initializer, which returns or raises.
OrigInit(t, raises) ==
    /\ pc[t] = "orig_init"
    /\ IF frame[t].inits > 0
       THEN /\ frame' = [frame EXCEPT ![t].inits = @ - 1, ![t].regs = @ + 1,
                                      ![t].replacing = FALSE]
            /\ pc' = [pc EXCEPT ![t] = "acquire"]
            /\ UNCHANGED outcome
       ELSE /\ outcome' = [outcome EXCEPT ![t] =
                              IF raises THEN Raised("InitError", NoName, "__init__")
                              ELSE Returned(<<>>)]
            /\ pc' = [pc EXCEPT ![t] = "done"]
            /\ UNCHANGED frame
    /\ UNCHANGED <<real_objects, proxy_lock, service_name, invoked>>

(* ----------------------------- ProxyObject ----------------------------- *)
\* ProxyObject(service_name): a new proxy object
ProxyInit(t, p, n) ==
    /\ pc[t] = "idle"
    /\ service_name[p] = NoName
    /\ service_name' = [service_name EXCEPT ![p] = n]
    /\ UNCHANGED <<real_objects, proxy_lock, pc, frame, outcome, invoked>>

\* the calls a thread makes on a proxy: proxy.add(x, y, **kw), proxy.boom(**kw),
\* proxy.foo(**kw)
CallShapes ==
    {[method |-> "add", args |-> a] : a \in ArgTuples}
        \cup {[method |-> "boom", args |-> <<>>], [method |-> "foo", args |-> <<>>]}

CallProxy(t, p, sh, kw) ==
    /\ pc[t] = "idle"
    /\ service_name[p] # NoName
    /\ frame' = [frame EXCEPT ![t] = [IdleFrame EXCEPT !.op = "call", !.proxy = p,
                     !.method = sh.method, !.args = sh.args, !.kwargs = kw]]
    /\ pc' = [pc EXCEPT ![t] = "getattr"]
    /\ UNCHANGED <<real_objects, proxy_lock, service_name, outcome, invoked>>

DictGet_otherkey(ro, n) ==
    LET k == IF n + 1 \in DOMAIN ro THEN n + 1 ELSE 1
    IN  IF ro[k] = NoEntry THEN PyNone ELSE ro[k]

\* real_objects.get(key)
DictGet(ro, n) == IF ro[n] = NoEntry THEN PyNone ELSE ro[n]

\* hasattr(obj, name): a bool
PyHasattr(obj, name) == IF name \in Members(obj) THEN "True" ELSE "False"

GetattrResult_inverted(obj, svc, name) ==
    IF obj # PyNone THEN Raised("ModuleUnavailableException", svc, "")
    ELSE NoOutcome

\* __getattr__(self, name), up to its raise or return
GetattrResult(obj, svc, name) ==
    IF obj = PyNone THEN Raised("ModuleUnavailableException", svc, "")
    ELSE IF PyHasattr(obj, name) = PyNone THEN Raised("NoSuchMethodException", svc, name)
    ELSE NoOutcome

Getattr(t) ==
    LET svc == service_name[frame[t].proxy]
        obj == DictGet(real_objects, svc)
        r == GetattrResult(obj, svc, frame[t].method)
    IN  /\ pc[t] = "getattr"
        /\ outcome' = [outcome EXCEPT ![t] = r]
        /\ pc' = [pc EXCEPT ![t] = IF r.kind = "raise" THEN "done" ELSE "call"]
        /\ UNCHANGED <<real_objects, proxy_lock, service_name, frame, invoked>>

\* calling the member `meth` of a registered object with *args, **kwargs
TargetCall(obj, meth, args, kwargs) ==
    IF kwargs # {} THEN Raised("TypeError", NoName, meth)
    ELSE IF meth = "add" THEN Returned(<<args[1] + args[2]>>)
    ELSE Raised("RuntimeError", NoName, meth)

CallSync_nokwargs(obj, meth, args, kwargs) ==
    IF meth \notin Members(obj) THEN Raised("AttributeError", NoName, meth)
    ELSE TargetCall(obj, meth, args, {})

CallSync_swallow(obj, meth, args, kwargs) ==
    IF meth \notin Members(obj) THEN Raised("AttributeError", NoName, meth)
    ELSE IF TargetCall(obj, meth, args, kwargs).kind = "raise" THEN Returned(<<>>)
    ELSE TargetCall(obj, meth, args, kwargs)

\* _call_sync: getattr(obj, method_name)(*args, **kwargs)
CallSync(obj, meth, args, kwargs) ==
    IF meth \notin Members(obj) THEN Raised("AttributeError", NoName, meth)
    ELSE TargetCall(obj, meth, args, kwargs)

\* does _call_sync reach the call of the member, and with what
Invocations(obj, meth, args, kwargs) ==
    IF meth \notin Members(obj) THEN <<>>
    ELSE <<[on |-> obj, method |-> meth, args |-> args, kwargs |-> kwargs]>>

\* call_proxy_method: 'callback_success' in kwargs selects _call_async
IsAsync(kwargs) == "callback_success" \in kwargs

\* the partial returned by __getattr__ is called
CallProxyMethod(t) ==
    LET f == frame[t]
        svc == service_name[f.proxy]
        obj == DictGet(real_objects, svc)
    IN  /\ pc[t] = "call"
        /\ IF IsAsync(f.kwargs)
           THEN /\ outcome' = [outcome EXCEPT ![t] = Raised("NotImplementedError", NoName, "")]
                /\ UNCHANGED invoked
           ELSE /\ outcome' = [outcome EXCEPT ![t] = CallSync(obj, f.method, f.args, f.kwargs)]
                /\ invoked' = [invoked EXCEPT ![t] = Invocations(obj, f.method, f.args, f.kwargs)]
        /\ pc' = [pc EXCEPT ![t] = "done"]
        /\ UNCHANGED <<real_objects, proxy_lock, service_name, frame>>

Next ==
    \E t \in Threads :
        \/ Acquire(t)
        \/ Release(t)
        \/ Return(t)
        \/ \E n \in Names, m \in Instances : CallRegister(t, n, m)
        \/ RegDel(t)
        \/ RegStore(t)
        \/ \E n \in Names, m \in Instances : CallUnregister(t, n, m)
        \/ UnregCheck(t)
        \/ \E m \in Decorated : CallConstruct(t, m)
        \/ \E raises \in BOOLEAN : OrigInit(t, raises)
        \/ \E p \in Proxies, n \in Names : ProxyInit(t, p, n)
        \/ \E p \in Proxies, sh \in CallShapes, kw \in KwargSets : CallProxy(t, p, sh, kw)
        \/ Getattr(t)
        \/ CallProxyMethod(t)

Spec == Init /\ [][Next]_vars

(* The registry operations alone, with the scheduling a liveness property  *)
(* needs: a thread inside the synchronized wrapper keeps running (weak     *)
(* fairness of the steps taken while holding the lock), and a thread       *)
(* blocked in lock.acquire() gets the lock if it is free again and again   *)
(* (strong fairness of Acquire).                                           *)
NextRegistry ==
    \E t \in Threads :
        \/ Acquire(t)
        \/ Release(t)
        \/ Return(t)
        \/ \E n \in Names, m \in Instances : CallRegister(t, n, m)
        \/ RegDel(t)
        \/ RegStore(t)
        \/ \E n \in Names, m \in Instances : CallUnregister(t, n, m)
        \/ UnregCheck(t)

FairRegistrySpec ==
    /\ Init
    /\ [][NextRegistry]_vars
    /\ \A t \in Threads :
          /\ SF_vars(Acquire(t))
          /\ WF_vars(RegDel(t))
          /\ WF_vars(RegStore(t))
          /\ WF_vars(UnregCheck(t))
          /\ WF_vars(Release(t))

(* ======================== properties of the code ======================= *)
SvcOf(t) == service_name[frame[t].proxy]

\* a register of name n has deleted the old entry and not yet stored the new
MidReplace(n) ==
    \E h \in Threads : pc[h] = "reg_store" /\ frame[h].name = n /\ frame[h].replacing

\* thread t takes the step in which the proxy reads the registry
LookupStep(t) == Getattr(t) \/ (CallProxyMethod(t) /\ ~IsAsync(frame[t].kwargs))

(* C1: registration replaces.  While a register(N, B) still holds the lock *)
(* after its store (so nothing else has touched N since), the registry     *)
(* maps N to B; and an entry of the registry only ever becomes a module    *)
(* through the store of a register of that name and module, so the entry   *)
(* for N is never anything but the module of the latest register(N, .).    *)
C1_RegistrationReplaces ==
    /\ [](\A t \in Threads :
            (pc[t] = "release" /\ frame[t].op = "register")
                => real_objects[frame[t].name] = frame[t].module)
    /\ [][\A n \in Names :
            (real_objects'[n] # real_objects[n] /\ real_objects'[n] # NoEntry)
                => \E t \in Threads :
                      /\ RegStore(t)
                      /\ frame[t].name = n
                      /\ frame[t].module = real_objects'[n]]_vars

\* register(N, "A") has completed, and a later register(N, "B") has replaced
\* an entry and stored "B"
C1_Witness ==
    \E t1, t2 \in Threads, n \in Names :
        /\ pc[t1] = "done" /\ frame[t1].op = "register"
        /\ frame[t1].name = n /\ frame[t1].module = "A"
        /\ pc[t2] = "release" /\ frame[t2].op = "register"
        /\ frame[t2].name = n /\ frame[t2].module = "B"
        /\ frame[t2].replacing
        /\ real_objects[n] = "B"

(* C2: matching unregister clears.  An unregister(N, A) that finds A       *)
(* itself stored under N leaves N without an entry.                        *)
C2_MatchingUnregisterClears ==
    [][\A t \in Threads :
        (UnregCheck(t) /\ real_objects[frame[t].name] = frame[t].module)
            => real_objects'[frame[t].name] = NoEntry]_vars

(* C3: stale unregister is a no-op.  An unregister(N, X) that finds an     *)
(* object other than X stored under N leaves the entry for N as it is.     *)
C3_StaleUnregisterNoOp ==
    [][\A t \in Threads :
        (UnregCheck(t) /\ real_objects[frame[t].name] # frame[t].module)
            => real_objects'[frame[t].name] = real_objects[frame[t].name]]_vars

(* C4: late binding.  Constructing a proxy leaves the registry alone; a    *)
(* method access on a proxy whose name has no entry raises                 *)
(* ModuleUnavailableException carrying that name, whatever happened        *)
(* before; a method access while the name has an entry yields the method   *)
(* handle, and calling the handle for add(x, y) while the name has an      *)
(* entry returns a value, also when an earlier access on the same proxy    *)
(* failed.                                                                 *)
C4_LateBinding ==
    [][\A t \in Threads :
        /\ (\E p \in Proxies, n \in Names : ProxyInit(t, p, n))
              => (real_objects' = real_objects /\ outcome'[t].kind # "raise")
        /\ (Getattr(t) /\ real_objects[SvcOf(t)] = NoEntry)
              => (outcome'[t] = Raised("ModuleUnavailableException", SvcOf(t), "")
                  /\ pc'[t] = "done")
        /\ (Getattr(t) /\ real_objects[SvcOf(t)] # NoEntry)
              => (outcome'[t].kind # "raise" /\ pc'[t] = "call")
        /\ (CallProxyMethod(t) /\ real_objects[SvcOf(t)] # NoEntry
                /\ frame[t].method = "add" /\ frame[t].kwargs = {})
              => outcome'[t].kind = "return"]_vars

\* a call on the proxy has failed with ModuleUnavailableException, and after
\* it a call on the same proxy has returned, the name now being registered
C4_Witness ==
    \E t1, t2 \in Threads :
        /\ pc[t1] = "done" /\ frame[t1].op = "call"
        /\ outcome[t1].exc = "ModuleUnavailableException"
        /\ pc[t2] = "done" /\ frame[t2].op = "call"
        /\ frame[t2].proxy = frame[t1].proxy
        /\ outcome[t2].kind = "return"
        /\ real_objects[SvcOf(t1)] # NoEntry

(* C5: synchronous pass-through.  A call without callback_success made     *)
(* while an object exposing the method is registered under the proxy's     *)
(* name invokes that object's method once, in the calling thread, with the *)
(* positional and keyword arguments of the call, and the call's result is  *)
(* the method's; add(2, 3) returns 5.                                      *)
C5_SyncPassThrough ==
    [][\A t \in Threads :
        (/\ CallProxyMethod(t)
         /\ "callback_success" \notin frame[t].kwargs
         /\ real_objects[SvcOf(t)] # NoEntry
         /\ frame[t].method \in Members(real_objects[SvcOf(t)]))
            => /\ invoked'[t] = <<[on |-> real_objects[SvcOf(t)],
                                   method |-> frame[t].method,
                                   args |-> frame[t].args,
                                   kwargs |-> frame[t].kwargs]>>
               /\ outcome'[t] = TargetCall(real_objects[SvcOf(t)], frame[t].method,
                                           frame[t].args, frame[t].kwargs)
               /\ (frame[t].method = "add" /\ frame[t].args = <<2, 3>>
                       /\ frame[t].kwargs = {})
                     => outcome'[t] = Returned(<<5>>)]_vars

\* proxy.add(2, 3) has returned 5 after one invocation of add on object "A"
C5_Witness ==
    \E t \in Threads :
        /\ pc[t] = "done" /\ frame[t].op = "call"
        /\ frame[t].method = "add" /\ frame[t].args = <<2, 3>> /\ frame[t].kwargs = {}
        /\ outcome[t] = Returned(<<5>>)
        /\ Len(invoked[t]) = 1 /\ invoked[t][1].on = "A"

(* C6: unknown method.  A call proxy.foo() that ends while an object       *)
(* without a member foo is registered under the proxy's name ends with     *)
(* NoSuchMethodException carrying the service name and "foo".              *)
C6_UnknownMethod ==
    [][\A t \in Threads :
        (/\ frame[t].op = "call" /\ frame[t].kwargs = {}
         /\ pc[t] \in {"getattr", "call"} /\ pc'[t] = "done"
         /\ real_objects[SvcOf(t)] # NoEntry
         /\ frame[t].method \notin Members(real_objects[SvcOf(t)]))
            => outcome'[t] = Raised("NoSuchMethodException", SvcOf(t), frame[t].method)]_vars

(* C7: asynchronous success.  A call with callback_success and             *)
(* callback_failure, made while an object exposing the method is           *)
(* registered, returns to the caller without raising and without running   *)
(* the method in the calling thread.                                       *)
C7_AsyncReturns ==
    [][\A t \in Threads :
        (/\ CallProxyMethod(t)
         /\ Keywords \subseteq frame[t].kwargs
         /\ real_objects[SvcOf(t)] # NoEntry
         /\ frame[t].method \in Members(real_objects[SvcOf(t)]))
            => (outcome'[t].kind = "return" /\ invoked'[t] = <<>>)]_vars

(* C8: asynchronous failure path.  A call with callback_success and        *)
(* callback_failure against a name without an entry, or for a member the   *)
(* object lacks, or whose method raises, raises nothing in the calling     *)
(* thread.                                                                 *)
C8_AsyncNeverRaises ==
    [][\A t \in Threads :
        (/\ frame[t].op = "call" /\ Keywords \subseteq frame[t].kwargs
         /\ pc[t] \in {"getattr", "call"} /\ pc'[t] # pc[t]
         /\ \/ real_objects[SvcOf(t)] = NoEntry
            \/ frame[t].method \notin Members(real_objects[SvcOf(t)])
            \/ frame[t].method = "boom")
            => outcome'[t].kind # "raise"]_vars

(* C9: concurrent registration race.  A register(N, X) that has stored     *)
(* leaves N mapped to X until the lock is released, and a lookup of N      *)
(* taken while a register(N, .) is replacing an entry never finds N        *)
(* without an entry: it observes the entry from before or the new one.     *)
C9_RegistrationRace ==
    /\ [](\A h \in Threads :
            (pc[h] = "release" /\ frame[h].op = "register")
                => real_objects[frame[h].name] \in Instances)
    /\ [][\A t \in Threads :
            (LookupStep(t) /\ MidReplace(SvcOf(t)))
                => real_objects[SvcOf(t)] # NoEntry]_vars

(* C10: one exclusive lock.  No two threads are inside register or         *)
(* unregister at once, and every lookup of the registry by a proxy is made *)
(* by a thread that holds proxy_lock.                                      *)
InsideSynchronized(t) == pc[t] \in {"reg_del", "reg_store", "unreg_check", "release"}

C10_LookupUnderLock ==
    /\ [](\A t1, t2 \in Threads :
            (InsideSynchronized(t1) /\ InsideSynchronized(t2)) => t1 = t2)
    /\ [][\A t \in Threads : LookupStep(t) => proxy_lock = t]_vars

(* C11: the outcomes of a synchronous call.  A call without                *)
(* callback_success whose handle is called while the proxy's name has no   *)
(* entry (never registered, or unregistered since the handle was obtained) *)
(* ends with ModuleUnavailableException carrying the name.                 *)
C11_AbsentAtCallIsModuleUnavailable ==
    [][\A t \in Threads :
        (/\ CallProxyMethod(t)
         /\ ~IsAsync(frame[t].kwargs)
         /\ real_objects[SvcOf(t)] = NoEntry)
            => outcome'[t] = Raised("ModuleUnavailableException", SvcOf(t), "")]_vars

(* C12: no cached instance.  A synchronous call that reaches a method is   *)
(* executed on the object registered under the proxy's name at the moment  *)
(* the handle is called, whatever was registered when the handle was       *)
(* obtained or at earlier calls; a constructed proxy's service name never  *)
(* changes.                                                                *)
C12_NoCachedInstance ==
    [][/\ \A t \in Threads :
            (/\ CallProxyMethod(t)
             /\ ~IsAsync(frame[t].kwargs)
             /\ real_objects[SvcOf(t)] # NoEntry
             /\ frame[t].method \in Members(real_objects[SvcOf(t)]))
                => (Len(invoked'[t]) = 1 /\ invoked'[t][1].on = real_objects[SvcOf(t)])
       /\ \A p \in Proxies :
            service_name[p] # NoName => service_name'[p] = service_name[p]]_vars

\* a call on the proxy was executed on "A"; the name now holds "B", and a
\* later call on the same proxy was executed on "B"
C12_Witness ==
    \E t1, t2 \in Threads :
        /\ pc[t1] = "done" /\ frame[t1].op = "call"
        /\ Len(invoked[t1]) = 1 /\ invoked[t1][1].on = "A"
        /\ pc[t2] = "done" /\ frame[t2].op = "call"
        /\ frame[t2].proxy = frame[t1].proxy
        /\ Len(invoked[t2]) = 1 /\ invoked[t2][1].on = "B"
        /\ real_objects[SvcOf(t1)] = "B"

(* C13: control parameters.  No invocation of a target method carries the  *)
(* keyword callback_success or callback_failure.                           *)
C13_CallbacksNotPassedThrough ==
    \A t \in Threads : \A i \in 1..Len(invoked[t]) :
        invoked[t][i].kwargs \cap Keywords = {}

(* C14: identity, not equality.  An unregister(N, X) that finds stored     *)
(* under N a different object that compares equal to X leaves the entry    *)
(* for N in place.                                                         *)
C14_UnregisterByIdentity ==
    [][\A t \in Threads :
        (/\ UnregCheck(t)
         /\ real_objects[frame[t].name] \in Instances
         /\ real_objects[frame[t].name] # frame[t].module
         /\ PyEq(real_objects[frame[t].name], frame[t].module) = "True")
            => real_objects'[frame[t].name] # NoEntry]_vars

(* C15: synchronous failures propagate.  When the method a synchronous     *)
(* call reaches raises, the call ends with that very exception after one   *)
(* invocation, and the step leaves the registry unchanged; proxy.boom()    *)
(* ends with boom's RuntimeError.                                          *)
C15_SyncExceptionPropagates ==
    [][\A t \in Threads :
        (/\ CallProxyMethod(t)
         /\ ~IsAsync(frame[t].kwargs)
         /\ real_objects[SvcOf(t)] # NoEntry
         /\ frame[t].method \in Members(real_objects[SvcOf(t)])
         /\ TargetCall(real_objects[SvcOf(t)], frame[t].method,
                       frame[t].args, frame[t].kwargs).kind = "raise")
            => /\ outcome'[t] = TargetCall(real_objects[SvcOf(t)], frame[t].method,
                                           frame[t].args, frame[t].kwargs)
               /\ (frame[t].method = "boom" /\ frame[t].kwargs = {})
                     => outcome'[t] = Raised("RuntimeError", NoName, "boom")
               /\ Len(invoked'[t]) = 1
               /\ real_objects' = real_objects]_vars

\* proxy.boom() has ended with RuntimeError after one invocation of boom
C15_Witness ==
    \E t \in Threads :
        /\ pc[t] = "done" /\ frame[t].op = "call"
        /\ frame[t].method = "boom" /\ frame[t].kwargs = {}
        /\ outcome[t] = Raised("RuntimeError", NoName, "boom")
        /\ Len(invoked[t]) = 1
        /\ real_objects[SvcOf(t)] # NoEntry

(* C16: register and unregister never fail.  Every finished call of        *)
(* register_module or unregister_module has returned (not raised).         *)
C16_RegistryOpsNeverFail ==
    \A t \in Threads :
        (pc[t] = "done" /\ frame[t].op \in {"register", "unregister"})
            => outcome[t].kind = "return"

(* C17: provide_proxy registers once.  A finished construction of an       *)
(* instance of a decorated class has called register_module exactly once.  *)
C17_ConstructRegistersOnce ==
    \A t \in Threads :
        (pc[t] = "done" /\ frame[t].op = "construct") => frame[t].regs = 1

C19_Frame ==
    [][\A t \in Threads :
        /\ (RegDel(t) \/ RegStore(t) \/ UnregCheck(t))
              => \A k \in Names \ {frame[t].name} : real_objects'[k] = real_objects[k]
        /\ ((\E p \in Proxies, n \in Names : ProxyInit(t, p, n))
                \/ (\E p \in Proxies, sh \in CallShapes, kw \in KwargSets :
                        CallProxy(t, p, sh, kw))
                \/ Getattr(t) \/ CallProxyMethod(t))
              => real_objects' = real_objects]_vars

\* a register of one name has replaced that name's entry while another name
\* keeps its entry
C19_Witness ==
    \E t \in Threads, k \in Names :
        /\ pc[t] = "release" /\ frame[t].op = "register" /\ frame[t].replacing
        /\ k # frame[t].name
        /\ real_objects[k] # NoEntry
        /\ real_objects[k] # real_objects[frame[t].name]

(* C20: registered before initialized.  When the register_module called by *)
(* the decorator's __init__ is about to return, the class's name maps to   *)
(* the instance under construction; the original initializer runs only     *)
(* after that, and neither its return nor its raise changes the registry.  *)
C20_RegisteredBeforeInit ==
    /\ [](\A t \in Threads :
            (pc[t] = "release" /\ frame[t].op = "construct")
                => real_objects[ClassName(frame[t].module)] = frame[t].module)
    /\ [][\A t \in Threads : \A raises \in BOOLEAN :
            OrigInit(t, raises)
                => (frame[t].regs >= 1 /\ real_objects' = real_objects)]_vars

\* the original initializer has raised and the instance is still registered
\* under its class's name
C20_Witness ==
    \E t \in Threads :
        /\ pc[t] = "done" /\ frame[t].op = "construct"
        /\ outcome[t].kind = "raise"
        /\ real_objects[ClassName(frame[t].module)] = frame[t].module
====
